---- MODULE Spec2Model ----
(***************************************************************************)
(* Firebird node for n8n: the execute() method of class Firebird in its    *)
(* three source variants, the copyInputItems helper, and the rewrite of    *)
(* named placeholders (:name) into positional ones (?).                    *)
(*                                                                         *)
(*   "node_ts"  : src/nodes/FirebirdNode/Firebird.node.ts                  *)
(*   "part_003" : src/unnamed/part_003                                     *)
(*   "dist_js"  : src/dist/nodes/FirebirdNode/Firebird.node.js             *)
(*                                                                         *)
(* Text is a sequence of one-character strings.  Indices passed to the     *)
(* JavaScript helpers are 0-based, as in the source.                       *)
(***************************************************************************)
EXTENDS Integers, Sequences, FiniteSets, TLC

VARIABLES
    variant,        \* which source variant runs
    rwIn,           \* rewrite harness: the inputs of one record of executeQuery
    rwOut,          \* rewrite harness: what the record's callback did
    pjIn,           \* projection harness: the arguments of one copyInputItems call
    pjOut,          \* projection harness: what the call gave
    heap,           \* projection harness: the arrays the records' values refer to
    input,          \* execute(): node parameters, input items, credentials, continueOnFail
    pc,             \* execute(): position of the async function
    conn,           \* state of every connection handle (0: per-invocation, i: of record i)
    task,           \* state of the per-record promise of items.map
    calls,          \* every db.queryAsync call made so far, in call order
    allP,           \* state of the Promise.all promise
    returnItems,    \* the local variable returnItems
    pendingThrow,   \* the error travelling through catch/finally
    outcome,        \* how execute() ended
    failures        \* history: the operation errors raised so far

vars == <<variant, rwIn, rwOut, pjIn, pjOut, heap, input, pc, conn, task, calls, allP, returnItems,
          pendingThrow, outcome, failures>>

Variants == {"node_ts", "part_003", "dist_js"}

(***************************************************************************)
(* Bounds of the model.                                                    *)
(***************************************************************************)
MaxLen == 7         \* longest query template of the rewrite harness
MaxItems == 2       \* most input items of one execute() call
MaxFields == 2      \* longest field list of the projection harness

(***************************************************************************)
(* JavaScript values and helpers.                                          *)
(***************************************************************************)
Undefined == "undefined"
Null == "null"

Min(a, b) == IF a <= b THEN a ELSE b
Max(a, b) == IF a >= b THEN a ELSE b

\* String.prototype.substring(start, end): both indices are clamped to
\* [0, length] and swapped when start > end.
substring(s, start, end) ==
    LET a == Max(0, Min(start, Len(s)))
        b == Max(0, Min(end, Len(s)))
    IN  SubSeq(s, Min(a, b) + 1, Max(a, b))

\* s[i] for a 0-based index inside the string
charAt(s, i) == s[i + 1]

\* Array.prototype.includes
includes(arr, x) == \E i \in 1..Len(arr) : arr[i] = x

\* The character class [_a-zA-Z0-9] of both regular expressions.
IdentChar ==
    {"_", "a", "b", "c", "d", "e", "f", "g", "h", "i", "j", "k", "l", "m",
     "n", "o", "p", "q", "r", "s", "t", "u", "v", "w", "x", "y", "z",
     "A", "B", "C", "D", "E", "F", "G", "H", "I", "J", "K", "L", "M",
     "N", "O", "P", "Q", "R", "S", "T", "U", "V", "W", "X", "Y", "Z",
     "0", "1", "2", "3", "4", "5", "6", "7", "8", "9"}

\* What String.prototype.trim removes (the characters of it the model uses).
WhiteSpace == {" ", "\t", "\n", "\r"}

RECURSIVE trimStart(_)
trimStart(s) ==
    IF Len(s) > 0 /\ s[1] \in WhiteSpace THEN trimStart(Tail(s)) ELSE s

RECURSIVE trimEnd(_)
trimEnd(s) ==
    IF Len(s) > 0 /\ s[Len(s)] \in WhiteSpace
    THEN trimEnd(SubSeq(s, 1, Len(s) - 1)) ELSE s

trim(s) == trimEnd(trimStart(s))

\* String.prototype.split(','): the pieces between commas; '' gives [''].
RECURSIVE split(_)
split(s) ==
    IF \A i \in 1..Len(s) : s[i] # ","
    THEN <<s>>
    ELSE LET i == CHOOSE k \in 1..Len(s) :
                      s[k] = "," /\ \A j \in 1..(k - 1) : s[j] # ","
         IN  <<SubSeq(s, 1, i - 1)>> \o split(SubSeq(s, i + 1, Len(s)))

\* paramsString.split(',').map(param => param.trim())
splitTrim(s) == LET parts == split(s) IN [i \in 1..Len(parts) |-> trim(parts[i])]

\* Array.prototype.join(',') of an array of texts
RECURSIVE join(_)
join(arr) ==
    IF Len(arr) = 0 THEN <<>>
    ELSE IF Len(arr) = 1 THEN arr[1]
    ELSE arr[1] \o <<",">> \o join(Tail(arr))

(***************************************************************************)
(* JavaScript objects with their property order: keys that are array       *)
(* indices ("0", "1", "10", ...) come first in ascending numeric order,    *)
(* then the other keys in insertion order.  An object is the sequence of   *)
(* its [k, v] properties in that order.                                    *)
(***************************************************************************)
Digit == {"0", "1", "2", "3", "4", "5", "6", "7", "8", "9"}

DigitValue(c) ==
    CASE c = "0" -> 0 [] c = "1" -> 1 [] c = "2" -> 2 [] c = "3" -> 3
      [] c = "4" -> 4 [] c = "5" -> 5 [] c = "6" -> 6 [] c = "7" -> 7
      [] c = "8" -> 8 [] c = "9" -> 9

\* value of a text of digits
RECURSIVE ToNumber(_)
ToNumber(k) ==
    IF Len(k) = 0 THEN 0
    ELSE 10 * ToNumber(SubSeq(k, 1, Len(k) - 1)) + DigitValue(k[Len(k)])

\* k is the canonical text of an array index (an integer below 2^32 - 1); keys
\* of up to nine digits are told apart, longer ones do not occur in the model
IsArrayIndex(k) ==
    /\ Len(k) > 0
    /\ Len(k) <= 9
    /\ \A i \in 1..Len(k) : k[i] \in Digit
    /\ (Len(k) > 1 => k[1] # "0")

\* Object.prototype, and a new object without own properties ({}, or what
\* JSON.parse gives for "{}")
ObjectPrototype == "Object.prototype"
EmptyObject == "emptyObject"

PROTO == <<"_", "_", "p", "r", "o", "t", "o", "_", "_">>

\* an object whose prototype is Object.prototype, as an object literal or JSON.parse
\* makes it, with the given own properties
Obj(own) == [proto |-> ObjectPrototype, own |-> own]

hasOwn(obj, k) == \E i \in 1..Len(obj.own) : obj.own[i].k = k

\* the function-valued members Object.prototype defines
ObjectPrototypeFunctions ==
    { <<"_", "_", "d", "e", "f", "i", "n", "e", "G", "e", "t", "t", "e", "r", "_", "_">>,
      <<"_", "_", "d", "e", "f", "i", "n", "e", "S", "e", "t", "t", "e", "r", "_", "_">>,
      <<"_", "_", "l", "o", "o", "k", "u", "p", "G", "e", "t", "t", "e", "r", "_", "_">>,
      <<"_", "_", "l", "o", "o", "k", "u", "p", "S", "e", "t", "t", "e", "r", "_", "_">>,
      <<"c", "o", "n", "s", "t", "r", "u", "c", "t", "o", "r">>,
      <<"h", "a", "s", "O", "w", "n", "P", "r", "o", "p", "e", "r", "t", "y">>,
      <<"i", "s", "P", "r", "o", "t", "o", "t", "y", "p", "e", "O", "f">>,
      <<"p", "r", "o", "p", "e", "r", "t", "y", "I", "s", "E", "n", "u", "m", "e", "r", "a", "b", "l", "e">>,
      <<"t", "o", "L", "o", "c", "a", "l", "e", "S", "t", "r", "i", "n", "g">>,
      <<"t", "o", "S", "t", "r", "i", "n", "g">>,
      <<"v", "a", "l", "u", "e", "O", "f">> }

Function == "function"

\* obj[k]: the own property; else, through the prototype chain, the prototype
\* itself for __proto__ (the getter of Object.prototype) and the functions of
\* Object.prototype; else undefined.  An object without prototype inherits
\* nothing.  The members an array used as prototype would add are not modelled.
getProp(obj, k) ==
    IF hasOwn(obj, k)
    THEN obj.own[CHOOSE i \in 1..Len(obj.own) : obj.own[i].k = k].v
    ELSE IF obj.proto = Null THEN Undefined
    ELSE IF k = PROTO THEN obj.proto
    ELSE IF k \in ObjectPrototypeFunctions THEN Function
    ELSE Undefined

\* number of properties that stay in front of a new key k
InsertPos(obj, k) ==
    IF IsArrayIndex(k)
    THEN Cardinality({i \in 1..Len(obj.own) :
            IsArrayIndex(obj.own[i].k) /\ ToNumber(obj.own[i].k) < ToNumber(k)})
    ELSE Len(obj.own)

\* Values are primitives or references to arrays.  The arrays live in a heap,
\* a sequence of cells; cell a holds the elements of the array "@a".
NoHeap == <<>>

Ref(a) == "@" \o ToString(a)

IsRef(h, v) == \E a \in 1..Len(h) : v = Ref(a)

Addr(h, v) == CHOOSE a \in 1..Len(h) : v = Ref(a)

\* obj[k] = v on heap h: an own property is overwritten; __proto__ that is not an
\* own property goes to the setter of Object.prototype, which changes the
\* prototype when v is an object or null, does nothing otherwise, and never
\* creates a property; any other key becomes a new own property
setProp(h, obj, k, v) ==
    IF hasOwn(obj, k)
    THEN [obj EXCEPT !.own = [i \in 1..Len(obj.own) |->
                                IF obj.own[i].k = k THEN [k |-> k, v |-> v] ELSE obj.own[i]]]
    ELSE IF k = PROTO /\ obj.proto # Null
    THEN IF v \in {Null, EmptyObject, ObjectPrototype} \/ IsRef(h, v)
         THEN [obj EXCEPT !.proto = v]
         ELSE obj
    ELSE LET p == InsertPos(obj, k)
         IN  [obj EXCEPT !.own = SubSeq(obj.own, 1, p) \o <<[k |-> k, v |-> v]>>
                                    \o SubSeq(obj.own, p + 1, Len(obj.own))]

\* Object.values(obj)
ObjectValues(obj) == [i \in 1..Len(obj.own) |-> obj.own[i].v]

\* JSON.parse(JSON.stringify(v)) of a value that JSON.stringify can write and
\* that is not an array: a number that is not finite is written as null,
\* Object.prototype (no enumerable property) as {}, every other such value comes
\* back as it was.
jsonCopy(v) ==
    IF v \in {"NaN", "Infinity", "-Infinity"} THEN Null
    ELSE IF v = ObjectPrototype THEN EmptyObject
    ELSE v

\* what JSON.stringify writes for an element of an array: null in the place of
\* undefined and of a function
arrayElement(v) == IF v \in {Undefined, Function} THEN Null ELSE v

\* JSON.parse(JSON.stringify(v)) on heap h.  JSON.stringify of undefined and of a
\* function is undefined, and JSON.parse(undefined) throws a SyntaxError; an array
\* is rebuilt element by element in a new cell; any other value is copied by
\* jsonCopy.  Gives whether it threw, the heap and the copy.
RECURSIVE jsonRoundTrip(_, _)
RECURSIVE jsonRoundTripAll(_, _)
jsonRoundTrip(h, v) ==
    IF v \in {Undefined, Function}
    THEN [threw |-> TRUE, heap |-> h, v |-> Undefined]
    ELSE IF IsRef(h, v)
    THEN LET r == jsonRoundTripAll(h, h[Addr(h, v)])
         IN  [threw |-> FALSE, heap |-> Append(r.heap, r.elems), v |-> Ref(Len(r.heap) + 1)]
    ELSE [threw |-> FALSE, heap |-> h, v |-> jsonCopy(v)]

\* the elements of an array after the round trip
jsonRoundTripAll(h, elems) ==
    IF Len(elems) = 0 THEN [heap |-> h, elems |-> <<>>]
    ELSE LET c == jsonRoundTrip(h, arrayElement(elems[1]))
             r == jsonRoundTripAll(c.heap, Tail(elems))
         IN  [heap |-> r.heap, elems |-> <<c.v>> \o r.elems]

\* let newItem; ... newItem = {}
NewObject == Obj(<<>>)

\* the right-hand side of newItem[property] = ...: null for undefined, else the copy
copyValue(h, value) ==
    IF value = Undefined THEN [threw |-> FALSE, heap |-> h, v |-> Null]
    ELSE jsonRoundTrip(h, value)

\* newItem[property] = c.v, unless the right-hand side threw
assignCopy(c, newItem, property) ==
    [threw |-> c.threw, heap |-> c.heap,
     item |-> IF c.threw THEN newItem ELSE setProp(c.heap, newItem, property, c.v)]

\* The inner loop of copyInputItems: newItem[property] = ... for each property.
\* The loop throws the SyntaxError of the round trip at a property whose value is
\* a function, such as one the record inherits from Object.prototype.  Gives
\* whether it threw, the heap and newItem.
RECURSIVE copyProperties(_, _, _, _)
RECURSIVE copyRemaining(_, _, _)
copyProperties(h, newItem, json, properties) ==
    IF Len(properties) = 0 THEN [threw |-> FALSE, heap |-> h, item |-> newItem]
    ELSE copyRemaining(assignCopy(copyValue(h, getProp(json, properties[1])),
                                  newItem, properties[1]),
                       json, Tail(properties))

\* the loop after one assignment, which ends it when it threw
copyRemaining(assigned, json, properties) ==
    IF assigned.threw THEN assigned
    ELSE copyProperties(assigned.heap, assigned.item, json, properties)

\* the array of items.map after one more callback, which returned newItem or threw
mapped(done, c) ==
    [threw |-> c.threw, heap |-> c.heap,
     items |-> IF c.threw THEN <<>> ELSE Append(done.items, c.item)]

\* items.map of copyInputItems from the state `done` on, over the remaining items
RECURSIVE copyItems(_, _, _)
copyItems(done, items, properties) ==
    IF Len(items) = 0 \/ done.threw THEN done
    ELSE copyItems(mapped(done, copyProperties(done.heap, NewObject, items[1], properties)),
                   Tail(items), properties)

\* copyInputItems(items, properties) on heap h: whether it threw, the heap after
\* the call and the array it returns.
copyInputItems(h, items, properties) ==
    copyItems([threw |-> FALSE, heap |-> h, items |-> <<>>], items, properties)

(***************************************************************************)
(* The two regular expressions.                                            *)
(***************************************************************************)
NoMatch == [found |-> FALSE, index |-> 0, end |-> 0, hasName |-> FALSE, name |-> <<>>]

\* index of the first quote at or after i, or -1
RECURSIVE NextQuote(_, _)
NextQuote(s, i) ==
    IF i >= Len(s) THEN -1
    ELSE IF charAt(s, i) = "'" THEN i
    ELSE NextQuote(s, i + 1)

\* end (exclusive) of the longest run of [_a-zA-Z0-9] that starts at i
RECURSIVE IdentEnd(_, _)
IdentEnd(s, i) ==
    IF i < Len(s) /\ charAt(s, i) \in IdentChar THEN IdentEnd(s, i + 1) ELSE i

\* re.exec(s) of re = /'[^']+'|(:)([_a-zA-Z0-9]+)/gm with re.lastIndex = lastIndex:
\* the leftmost match that starts at or after lastIndex; "end" is the new lastIndex.
RECURSIVE reExec(_, _)
reExec(s, lastIndex) ==
    IF lastIndex >= Len(s) THEN NoMatch
    ELSE IF charAt(s, lastIndex) = "'" /\ NextQuote(s, lastIndex + 1) >= lastIndex + 2
    THEN [found |-> TRUE, index |-> lastIndex, end |-> NextQuote(s, lastIndex + 1) + 1,
          hasName |-> FALSE, name |-> <<>>]
    ELSE IF charAt(s, lastIndex) = ":" /\ IdentEnd(s, lastIndex + 1) > lastIndex + 1
    THEN [found |-> TRUE, index |-> lastIndex, end |-> IdentEnd(s, lastIndex + 1),
          hasName |-> TRUE,
          name |-> substring(s, lastIndex + 1, IdentEnd(s, lastIndex + 1))]
    ELSE reExec(s, lastIndex + 1)

\* one step of /(:)([_a-zA-Z0-9]+)/gm from position lastIndex
RECURSIVE plainExec(_, _)
plainExec(s, lastIndex) ==
    IF lastIndex >= Len(s) THEN NoMatch
    ELSE IF charAt(s, lastIndex) = ":" /\ IdentEnd(s, lastIndex + 1) > lastIndex + 1
    THEN [found |-> TRUE, index |-> lastIndex, end |-> IdentEnd(s, lastIndex + 1),
          hasName |-> TRUE,
          name |-> substring(s, lastIndex + 1, IdentEnd(s, lastIndex + 1))]
    ELSE plainExec(s, lastIndex + 1)

\* rawQuery.matchAll(/(:)([_a-zA-Z0-9]+)/gm): the matches in the original text
RECURSIVE matchAllFrom(_, _)
matchAllFrom(s, lastIndex) ==
    LET m == plainExec(s, lastIndex)
    IN  IF m.found THEN <<m>> \o matchAllFrom(s, m.end) ELSE <<>>

matchAll(s) == matchAllFrom(s, 0)

(***************************************************************************)
(* The rewrite loops of executeQuery.                                      *)
(***************************************************************************)
\* parametrizedQuery.substring(0, match.index) + '?' +
\*     parametrizedQuery.substring(match.index + 1 + match[2].length)
replaceAt(parametrizedQuery, match) ==
    substring(parametrizedQuery, 0, match.index) \o <<"?">>
        \o substring(parametrizedQuery, match.index + 1 + Len(match.name),
                     Len(parametrizedQuery))

\* while ((match = re.exec(parametrizedQuery)) !== null) { ... }
RECURSIVE execLoop(_, _, _, _, _)
execLoop(parametrizedQuery, lastIndex, queryItems, params, insertItems) ==
    LET match == reExec(parametrizedQuery, lastIndex)
    IN  IF ~match.found
        THEN [threw |-> FALSE, paramName |-> <<>>,
              parametrizedQuery |-> parametrizedQuery, queryItems |-> queryItems]
        ELSE IF ~match.hasName
        THEN execLoop(parametrizedQuery, match.end, queryItems, params, insertItems)
        ELSE IF ~includes(params, match.name)
        THEN [threw |-> TRUE, paramName |-> match.name,
              parametrizedQuery |-> parametrizedQuery, queryItems |-> queryItems]
        ELSE execLoop(replaceAt(parametrizedQuery, match), match.end,
                      Append(queryItems, getProp(insertItems, match.name)),
                      params, insertItems)

\* for (const match of matchedParams) { ... }
RECURSIVE matchAllLoop(_, _, _, _, _)
matchAllLoop(matchedParams, parametrizedQuery, queryItems, params, insertItems) ==
    IF Len(matchedParams) = 0
    THEN [threw |-> FALSE, paramName |-> <<>>,
          parametrizedQuery |-> parametrizedQuery, queryItems |-> queryItems]
    ELSE LET match == matchedParams[1]
         IN  IF ~includes(params, match.name)
             THEN [threw |-> TRUE, paramName |-> match.name,
                   parametrizedQuery |-> parametrizedQuery, queryItems |-> queryItems]
             ELSE matchAllLoop(Tail(matchedParams), replaceAt(parametrizedQuery, match),
                               Append(queryItems, getProp(insertItems, match.name)),
                               params, insertItems)

\* the rewrite of one record's template, per variant
rewrite(v, rawQuery, params, insertItems) ==
    IF v = "node_ts"
    THEN matchAllLoop(matchAll(rawQuery), rawQuery, <<>>, params, insertItems)
    ELSE execLoop(rawQuery, 0, <<>>, params, insertItems)

\* new NodeOperationError(this.getNode(), `The parameter "${paramName}" is unknown!`)
UnknownParameter(paramName) == [kind |-> "parameterUnknown", detail |-> paramName]

\* the SyntaxError of JSON.parse(undefined)
SyntaxError == [kind |-> "syntaxError", detail |-> <<>>]

\* what the callback throws
Throw(h, error) ==
    [kind |-> "throw", error |-> error, sql |-> <<>>, hasArgs |-> FALSE, args |-> <<>>,
     heap |-> h]

\* after the rewrite loop: the throw of the loop, or if (queryItems.length > 0)
\* db.queryAsync(parametrizedQuery, queryItems) else db.queryAsync(rawQuery)
dispatch(h, rawQuery, r) ==
    IF r.threw
    THEN Throw(h, UnknownParameter(r.paramName))
    ELSE IF Len(r.queryItems) > 0
    THEN [kind |-> "query", error |-> UnknownParameter(<<>>),
          sql |-> r.parametrizedQuery, hasArgs |-> TRUE, args |-> r.queryItems, heap |-> h]
    ELSE [kind |-> "query", error |-> UnknownParameter(<<>>),
          sql |-> rawQuery, hasArgs |-> FALSE, args |-> <<>>, heap |-> h]

\* the callback from const insertItems = copyInputItems([items[index]], params)[0] on
prepareCopied(v, rawQuery, params, copy) ==
    IF copy.threw
    THEN Throw(copy.heap, SyntaxError)
    ELSE dispatch(copy.heap, rawQuery, rewrite(v, rawQuery, params, copy.items[1]))

\* the callback from const params = paramsString.split(',').map(...) on
prepareWith(v, h, rawQuery, params, item) ==
    prepareCopied(v, rawQuery, params, copyInputItems(h, <<item>>, params))

\* The body of the items.map callback of executeQuery from the template to the
\* driver call: it throws (in copyInputItems or at an unknown parameter), or calls
\* db.queryAsync with or without a parameter array.  The record's arrays are cells
\* of heap h; the result holds the heap after the projection.
prepareQuery(v, h, rawQuery, paramsString, item) ==
    prepareWith(v, h, rawQuery, splitTrim(paramsString), item)

(***************************************************************************)
(* Errors, driver results and output records.                              *)
(***************************************************************************)
NoError == [kind |-> "none", detail |-> <<>>]

\* new NodeOperationError(this.getNode(), 'No credentials got returned!')
NoCredentials == [kind |-> "noCredentials", detail |-> <<>>]

\* new NodeOperationError(this.getNode(), `The operation "${operation}" is not supported!`)
UnsupportedOperation(operation) == [kind |-> "operationNotSupported", detail |-> <<operation>>]

\* what the driver rejects attachAsync, queryAsync and detachAsync with
ConnectError(c) == [kind |-> "connectError", detail |-> <<ToString(c)>>]
QueryError(k) == [kind |-> "queryError", detail |-> <<ToString(k)>>]
DetachError(c) == [kind |-> "detachError", detail |-> <<ToString(c)>>]

\* returnItems[0] of an undefined query result
TypeError == [kind |-> "typeError", detail |-> <<>>]

\* what db.queryAsync resolves with for call k: nothing, one object, or rows
NoResult == [kind |-> "none", rows |-> <<>>]
DriverResults(k) ==
    { [kind |-> "undefined", rows |-> <<>>],
      [kind |-> "object", rows |-> <<"obj" \o ToString(k)>>],
      [kind |-> "array", rows |-> <<"row" \o ToString(k) \o "a", "row" \o ToString(k) \o "b">>] }

\* an output record {json: data}
Entry(data) == [json |-> data, error |-> NoError]

\* this.helpers.returnJsonArray({ error: error.message })
ErrorItems(error) == <<[json |-> "errorObject", error |-> error]>>

\* this.helpers.returnJsonArray(jsonData) of an array and of a single value
returnJsonArray(jsonData) == [i \in 1..Len(jsonData) |-> Entry(jsonData[i])]
returnJsonValue(jsonData) == <<Entry(jsonData)>>

\* the reduce over the results of Promise.all in executeQuery
RECURSIVE reduceResults(_, _, _)
reduceResults(v, collection, results) ==
    IF Len(results) = 0 THEN collection
    ELSE LET result == results[1]
             next == IF result.kind = "undefined"
                     THEN IF v = "dist_js"
                          THEN Append(collection, EmptyObject)
                          ELSE Append(collection, Undefined)
                     ELSE IF result.kind = "array"
                     THEN collection \o result.rows
                     ELSE Append(collection, result.rows[1])
         IN  reduceResults(v, next, Tail(results))

(***************************************************************************)
(* SQL text of insert and update.                                          *)
(***************************************************************************)
INSERT_INTO == <<"I", "N", "S", "E", "R", "T", " ", "I", "N", "T", "O", " ">>
VALUES == <<")", " ", "V", "A", "L", "U", "E", "S", " ">>
UPDATE == <<"U", "P", "D", "A", "T", "E", " ">>
SET == <<" ", "S", "E", "T", " ">>
WHERE == <<" ", "W", "H", "E", "R", "E", " ">>
EQ_PARAM == <<" ", "=", " ", "?">>

\* `(${columns.map(column => '?').join(',')})`
insertPlaceholder(columns) ==
    <<"(">> \o join([i \in 1..Len(columns) |-> <<"?">>]) \o <<")">>

\* `INSERT INTO ${table}(${columnString}) VALUES ${items.map(item => insertPlaceholder).join(',')};`
insertSQL(table, columnString, items) ==
    INSERT_INTO \o table \o <<"(">> \o columnString \o VALUES
        \o join([i \in 1..Len(items) |-> insertPlaceholder(splitTrim(columnString))])
        \o <<";">>

\* insertItems.reduce((collection, item) => collection.concat(Object.values(item)), [])
RECURSIVE flatValues(_)
flatValues(insertItems) ==
    IF Len(insertItems) = 0 THEN <<>>
    ELSE ObjectValues(insertItems[1]) \o flatValues(Tail(insertItems))

\* the reduce over the projected items, unless copyInputItems threw
reduceValues(copy) ==
    [threw |-> copy.threw, heap |-> copy.heap,
     queryItems |-> IF copy.threw THEN <<>> ELSE flatValues(copy.items)]

\* the arguments of the insert query, unless copyInputItems threw
insertQueryItems(h, columnString, items) ==
    reduceValues(copyInputItems(h, items, splitTrim(columnString)))

\* columns after: if (!columns.includes(updateKey)) columns.unshift(updateKey)
updateColumns(columnString, updateKey) ==
    LET columns == splitTrim(columnString)
    IN  IF ~includes(columns, updateKey) THEN <<updateKey>> \o columns ELSE columns

\* `UPDATE ${table} SET ${columns.map(column => `${column} = ?`).join(',')} WHERE ${updateKey} = ?;`
updateSQL(table, columnString, updateKey) ==
    LET columns == updateColumns(columnString, updateKey)
    IN  UPDATE \o table \o SET
            \o join([i \in 1..Len(columns) |-> columns[i] \o EQ_PARAM])
            \o WHERE \o updateKey \o EQ_PARAM \o <<";">>

\* values.concat(v) on heap h: the elements of v appended when v is an array, else v
concat(h, values, v) ==
    IF IsRef(h, v) THEN values \o h[Addr(h, v)] ELSE Append(values, v)

\* Object.values(item).concat(item[updateKey]) of a projected record
valuesAndKey(copy, updateKey) ==
    [threw |-> copy.threw, heap |-> copy.heap,
     queryItems |-> IF copy.threw THEN <<>>
                    ELSE concat(copy.heap, ObjectValues(copy.items[1]),
                                getProp(copy.items[1], updateKey))]

\* the arguments of the update query of one item, unless copyInputItems threw at it
updateQueryItems(h, columnString, updateKey, item) ==
    valuesAndKey(copyInputItems(h, <<item>>, updateColumns(columnString, updateKey)),
                 updateKey)

(***************************************************************************)
(* Inputs of the model.                                                    *)
(***************************************************************************)
ID == <<"i", "d">>
NAME == <<"n", "a", "m", "e">>
TABLE == <<"t">>
ZERO == <<"0">>
MISSING == <<"m", "i", "s", "s", "i", "n", "g">>
TO_STRING == <<"t", "o", "S", "t", "r", "i", "n", "g">>

\* the input items: item i is ItemPool[i].json
ItemPool ==
    << Obj(<<[k |-> ID, v |-> "1"], [k |-> NAME, v |-> "a"]>>),
       Obj(<<[k |-> ID, v |-> "2"]>>),
       Obj(<<[k |-> NAME, v |-> "c"], [k |-> ID, v |-> "3"]>>),
       Obj(<<[k |-> ID, v |-> "4"], [k |-> NAME, v |-> "d"]>>) >>

ItemsOf(n) == SubSeq(ItemPool, 1, n)

\* the arrays of the input items of execute(): ["x","y"] and []
ExecuteHeap == << <<"x", "y">>, <<>> >>

\* input items whose update key holds an array
ArrayItemPool ==
    << Obj(<<[k |-> ID, v |-> Ref(1)], [k |-> NAME, v |-> "a"]>>),
       Obj(<<[k |-> ID, v |-> Ref(2)]>>),
       Obj(<<[k |-> NAME, v |-> "c"], [k |-> ID, v |-> "3"]>>),
       Obj(<<[k |-> ID, v |-> Ref(1)], [k |-> NAME, v |-> "d"]>>) >>

ArrayItemsOf(n) == SubSeq(ArrayItemPool, 1, n)

\* query templates of execute(): no placeholder, a declared one, an undeclared one
QueryPool ==
    { <<"x">>,
      <<":">> \o ID,
      <<":", "z">> }

PARAMS == ID \o <<",", " ">> \o NAME

\* declared parameter lists of execute(): the fields of the records, or one that
\* the records inherit as a function
ExecuteParams == { PARAMS, ID \o <<",">> \o TO_STRING }

\* column lists of insert and update
ColumnPool ==
    { NAME,
      ID \o <<",">> \o NAME,
      NAME \o <<",", " ">> \o ID,
      NAME \o <<",">> \o NAME,
      NAME \o <<",", "0">>,
      NAME \o <<",">> \o TO_STRING }

Operations == {"executeQuery", "insert", "update", "delete"}

\* characters of the templates of the rewrite harness
Alphabet == {":", "'", ",", "a"}

Templates == UNION { [1..n -> Alphabet] : n \in 0..MaxLen }

A == <<"a">>
AA == <<"a", "a">>

\* declared parameter lists of the rewrite harness; the last one declares a name
\* that every record inherits from Object.prototype as a function
ParamsPool == { A, A \o <<",", " ">> \o AA, A \o <<",">> \o TO_STRING }

\* the record's json: both parameters present, or the second one absent
RewriteItems ==
    { Obj(<<[k |-> A, v |-> "1"], [k |-> AA, v |-> "2"]>>),
      Obj(<<[k |-> A, v |-> "3"]>>) }

NoInput ==
    [operation |-> "none", continueOnFail |-> FALSE, credentials |-> FALSE,
     items |-> <<>>, heap |-> NoHeap, queries |-> <<>>, paramsString |-> <<>>,
     table |-> <<>>, columnString |-> <<>>, updateKey |-> <<>>]

NoRewrite == [rawQuery |-> <<>>, paramsString |-> <<>>, item |-> Obj(<<>>)]

\* field names of the projection harness: present or absent in the records, one
\* that is an array index, two that Object.prototype defines
FieldNames == {ID, NAME, ZERO, MISSING, TO_STRING, PROTO}

FieldLists == UNION { [1..n -> FieldNames] : n \in 0..MaxFields }

\* the arrays of the projection harness: ["x","y"] and [["x","y"],"z"]
ProjectHeap == << <<"x", "y">>, <<Ref(1), "z">> >>

\* the records of the projection harness: {id:1}, {id:[["x","y"],"z"], name:"a"}
\* and {0:5, name:["x","y"]}
ProjectPool ==
    << Obj(<<[k |-> ID, v |-> "1"]>>),
       Obj(<<[k |-> ID, v |-> Ref(2)], [k |-> NAME, v |-> "a"]>>),
       Obj(<<[k |-> ZERO, v |-> "5"], [k |-> NAME, v |-> Ref(1)]>>) >>

RecordLists ==
    UNION { {[i \in 1..n |-> ProjectPool[pick[i]]] : pick \in [1..n -> 1..Len(ProjectPool)]}
            : n \in 0..MaxItems }

NoProjection == [items |-> <<>>, properties |-> <<>>, heap |-> NoHeap, none |-> TRUE]
NotProjected == [kind |-> "notRun", items |-> <<>>, mutated |-> FALSE]
NotRun ==
    [kind |-> "notRun", error |-> NoError, sql |-> <<>>, hasArgs |-> FALSE, args |-> <<>>,
     heap |-> NoHeap]

NotEnded == [kind |-> "running", error |-> NoError, items |-> <<>>]
NoTask == [st |-> "none", call |-> 0, result |-> NoResult, error |-> NoError]

(***************************************************************************)
(* The rewrite harness: one record of executeQuery, from its template to   *)
(* the driver call.                                                        *)
(***************************************************************************)
IdleProject ==
    /\ pjIn = NoProjection
    /\ pjOut = NotProjected
    /\ heap = NoHeap

IdleExecute ==
    /\ input = NoInput
    /\ pc = "idle"
    /\ conn = <<>>
    /\ task = <<>>
    /\ calls = <<>>
    /\ allP = "none"
    /\ returnItems = <<>>
    /\ pendingThrow = NoError
    /\ outcome = NotEnded
    /\ failures = {}

InitRewrite ==
    /\ variant \in Variants
    /\ rwIn \in [rawQuery : Templates, paramsString : ParamsPool, item : RewriteItems]
    /\ rwOut = NotRun
    /\ IdleProject
    /\ IdleExecute

RunRecord ==
    /\ rwOut = NotRun
    /\ rwIn # NoRewrite
    /\ rwOut' = prepareQuery(variant, NoHeap, rwIn.rawQuery, rwIn.paramsString, rwIn.item)
    /\ UNCHANGED <<variant, rwIn, pjIn, pjOut, heap, input, pc, conn, task, calls, allP,
                   returnItems, pendingThrow, outcome, failures>>

NextRewrite == RunRecord

SpecRewrite == InitRewrite /\ [][NextRewrite]_vars

(***************************************************************************)
(* The projection harness: one call of copyInputItems, and afterwards the  *)
(* caller writing into the arrays of the records it was given back.        *)
(***************************************************************************)
InitProject ==
    /\ variant \in Variants
    /\ rwIn = NoRewrite
    /\ rwOut = NotRun
    /\ \E items \in RecordLists, properties \in FieldLists :
          pjIn = [items |-> items, properties |-> properties, heap |-> ProjectHeap,
                  none |-> FALSE]
    /\ pjOut = NotProjected
    /\ heap = ProjectHeap
    /\ IdleExecute

\* copyInputItems(items, properties) returns or throws
Project ==
    /\ pjOut = NotProjected
    /\ ~pjIn.none
    /\ LET r == copyInputItems(heap, pjIn.items, pjIn.properties)
       IN  IF r.threw
           THEN /\ pjOut' = [kind |-> "threw", items |-> <<>>, mutated |-> FALSE]
                /\ heap' = heap
           ELSE /\ pjOut' = [kind |-> "returned", items |-> r.items, mutated |-> FALSE]
                /\ heap' = r.heap
    /\ UNCHANGED <<variant, rwIn, rwOut, pjIn, input, pc, conn, task, calls, allP,
                   returnItems, pendingThrow, outcome, failures>>

\* the arrays a value reaches
RECURSIVE Reach(_, _)
Reach(h, v) ==
    IF IsRef(h, v)
    THEN {Addr(h, v)} \cup UNION {Reach(h, h[Addr(h, v)][j]) : j \in 1..Len(h[Addr(h, v)])}
    ELSE {}

\* the caller pushes an element onto array a, reached from property p of returned record i
MutateProjected(i, p, a) ==
    /\ pjOut.kind = "returned"
    /\ a \in Reach(heap, pjOut.items[i].own[p].v)
    /\ \A j \in 1..Len(heap[a]) : heap[a][j] # "pushed"
    /\ heap' = [heap EXCEPT ![a] = Append(@, "pushed")]
    /\ pjOut' = [pjOut EXCEPT !.mutated = TRUE]
    /\ UNCHANGED <<variant, rwIn, rwOut, pjIn, input, pc, conn, task, calls, allP,
                   returnItems, pendingThrow, outcome, failures>>

NextProject ==
    \/ Project
    \/ \E i \in 1..Len(pjOut.items) : \E p \in 1..Len(pjOut.items[i].own) :
          \E a \in 1..Len(heap) : MutateProjected(i, p, a)

SpecProject == InitProject /\ [][NextProject]_vars

(***************************************************************************)
(* execute(): from the call to the settlement of the promise it returns,   *)
(* with the driver's attach, query and detach completing in any order.     *)
(***************************************************************************)
Threw(error) == [kind |-> "threw", error |-> error, items |-> <<>>]

\* return this.prepareOutputData(returnItems)
Returned(items) == [kind |-> "returned", error |-> NoError, items |-> items]

\* a db.queryAsync call on connection c; rank becomes its place in the order in
\* which the calls complete
Call(c, sql, hasArgs, args) ==
    [conn |-> c, sql |-> sql, hasArgs |-> hasArgs, args |-> args, heap |-> input.heap,
     st |-> "inflight", rank |-> 0]

Init ==
    /\ variant \in Variants
    /\ rwIn = NoRewrite
    /\ rwOut = NotRun
    /\ IdleProject
    /\ \E op \in Operations, cof \in BOOLEAN, cred \in BOOLEAN, n \in 0..MaxItems :
         \E qs \in [1..n -> QueryPool], ps \in ExecuteParams, cols \in ColumnPool,
            its \in {ItemsOf(n), ArrayItemsOf(n)} :
            /\ op = "executeQuery" \/ (qs = [i \in 1..n |-> <<"x">>] /\ ps = PARAMS)
            /\ (op = "update" /\ cols = NAME) \/ its = ItemsOf(n)
            /\ op \in {"insert", "update"} \/ cols = NAME
            /\ input = [operation |-> op, continueOnFail |-> cof, credentials |-> cred,
                        items |-> its, heap |-> ExecuteHeap, queries |-> qs, paramsString |-> ps,
                        table |-> TABLE, columnString |-> cols, updateKey |-> ID]
    /\ pc = "start"
    /\ conn = [c \in 0..Len(input.items) |-> "none"]
    /\ task = [i \in 1..Len(input.items) |-> NoTask]
    /\ calls = <<>>
    /\ allP = "none"
    /\ returnItems = <<>>
    /\ pendingThrow = NoError
    /\ outcome = NotEnded
    /\ failures = {}

N == Len(input.items)

\* What follows the try block of an operation that ended with `items` or threw
\* `error`: the catch block, in node_ts the finally block up to its await of
\* db.detachAsync(), and otherwise the return or the throw of execute().
EndOperation(connNow, threw, error, items) ==
    LET ri == IF threw /\ input.continueOnFail THEN ErrorItems(error)
              ELSE IF threw THEN returnItems ELSE items
        rethrown == IF threw /\ ~input.continueOnFail THEN error ELSE NoError
    IN  /\ returnItems' = ri
        /\ IF variant = "node_ts" /\ connNow[0] = "attached"
           THEN /\ conn' = [connNow EXCEPT ![0] = "detaching"]
                /\ pc' = "detaching"
                /\ pendingThrow' = rethrown
                /\ outcome' = outcome
           ELSE /\ conn' = connNow
                /\ pc' = "done"
                /\ pendingThrow' = NoError
                /\ outcome' = IF rethrown # NoError THEN Threw(rethrown) ELSE Returned(ri)

\* an assembly in which update returns the results of its queries
AllFulfilledWithResults(taskNow) ==
    returnJsonArray(reduceResults(variant, <<>>, [i \in 1..N |-> taskNow[i].result]))

\* the results of Promise.all read from the last record to the first
AllFulfilledReversed(taskNow) ==
    IF input.operation = "executeQuery"
    THEN returnJsonArray(reduceResults(variant, <<>>, [i \in 1..N |-> taskNow[N + 1 - i].result]))
    ELSE returnJsonValue(Undefined)

\* what the operation assigns to returnItems once every per-record promise is fulfilled
AllFulfilled(taskNow) ==
    IF input.operation = "executeQuery"
    THEN returnJsonArray(reduceResults(variant, <<>>, [i \in 1..N |-> taskNow[i].result]))
    ELSE returnJsonValue(Undefined)

\* db.queryAsync as the executeQuery callback prepared it; the arrays among the
\* arguments are cells of the heap after the projection
queryCall(c, p) == [Call(c, p.sql, p.hasArgs, p.args) EXCEPT !.heap = p.heap]

\* db.queryAsync(sql, queryItems) of insert and update
argsCall(c, sql, q) == [Call(c, sql, TRUE, q.queryItems) EXCEPT !.heap = q.heap]

\* the db.queryAsync call of record i on connection c
RecordCall(c, i) ==
    IF input.operation = "executeQuery"
    THEN queryCall(c, prepareQuery(variant, input.heap, input.queries[i],
                                   input.paramsString, input.items[i]))
    ELSE argsCall(c, updateSQL(input.table, input.columnString, input.updateKey),
                  updateQueryItems(input.heap, input.columnString, input.updateKey,
                                   input.items[i]))

\* the record's callback throws before it calls the driver
RecordThrows(i) ==
    /\ input.operation = "executeQuery"
    /\ prepareQuery(variant, input.heap, input.queries[i], input.paramsString, input.items[i]).kind = "throw"

RecordError(i) ==
    prepareQuery(variant, input.heap, input.queries[i], input.paramsString, input.items[i]).error

InsertCall(c) ==
    argsCall(c, insertSQL(input.table, input.columnString, input.items),
             insertQueryItems(input.heap, input.columnString, input.items))

\* copyInputItems(items, columns) of insert or update throws
operationCopyThrows ==
    \/ /\ input.operation = "insert"
       /\ insertQueryItems(input.heap, input.columnString, input.items).threw
    \/ /\ input.operation = "update"
       /\ \E i \in 1..Len(input.items) :
             updateQueryItems(input.heap, input.columnString, input.updateKey, input.items[i]).threw

\* the promise of record i is rejected; Promise.all rejects with the first rejection
TaskRejects(connNow, i, error) ==
    /\ task' = [task EXCEPT ![i] = [@ EXCEPT !.st = "rejected", !.error = error]]
    /\ failures' = failures \cup {error}
    /\ IF allP = "pending"
       THEN /\ allP' = "rejected"
            /\ EndOperation(connNow, TRUE, error, <<>>)
       ELSE /\ conn' = connNow
            /\ UNCHANGED <<allP, pc, returnItems, pendingThrow, outcome>>

\* a check of the credentials that lets every invocation pass
credentialsAlwaysReturned == FALSE

\* credentials === undefined
credentialsUndefined == ~input.credentials

\* execute() up to its first await
Start ==
    /\ pc = "start"
    /\ UNCHANGED <<variant, rwIn, rwOut, pjIn, pjOut, heap, input, calls>>
    /\ IF credentialsUndefined
       THEN /\ pc' = "done"
            /\ outcome' = Threw(NoCredentials)
            /\ UNCHANGED <<conn, task, allP, returnItems, pendingThrow, failures>>
       ELSE IF variant # "node_ts" /\ operationCopyThrows
       THEN \* part_003, dist_js: insert and update project the items before they attach
            /\ failures' = failures \cup {SyntaxError}
            /\ EndOperation(conn, TRUE, SyntaxError, <<>>)
            /\ UNCHANGED <<task, allP>>
       ELSE IF variant = "node_ts" \/ input.operation = "insert"
       THEN /\ pc' = "attaching"
            /\ conn' = [conn EXCEPT ![0] = "attaching"]
            /\ UNCHANGED <<task, allP, returnItems, pendingThrow, outcome, failures>>
       ELSE IF input.operation \in {"executeQuery", "update"}
       THEN IF N = 0
            THEN /\ allP' = "resolved"
                 /\ EndOperation(conn, FALSE, NoError, AllFulfilled(task))
                 /\ UNCHANGED <<task, failures>>
            ELSE /\ pc' = "awaitAll"
                 /\ allP' = "pending"
                 /\ conn' = [c \in 0..N |-> IF c = 0 THEN "none" ELSE "attaching"]
                 /\ task' = [i \in 1..N |-> [NoTask EXCEPT !.st = "attaching"]]
                 /\ UNCHANGED <<returnItems, pendingThrow, outcome, failures>>
       ELSE /\ failures' = failures \cup {UnsupportedOperation(input.operation)}
            /\ EndOperation(conn, TRUE, UnsupportedOperation(input.operation), <<>>)
            /\ UNCHANGED <<task, allP>>

\* node_ts: the index of the first record whose callback throws, or N + 1
FirstThrow ==
    IF \E i \in 1..N : RecordThrows(i)
    THEN CHOOSE i \in 1..N : RecordThrows(i) /\ \A j \in 1..(i - 1) : ~RecordThrows(j)
    ELSE N + 1

\* node_ts: attachAsync resolved; the operation runs up to its first await
SharedAttached ==
    LET connNow == [conn EXCEPT ![0] = "attached"]
    IN  IF operationCopyThrows
        THEN /\ failures' = failures \cup {SyntaxError}
             /\ EndOperation(connNow, TRUE, SyntaxError, <<>>)
             /\ UNCHANGED <<task, calls, allP>>
        ELSE IF input.operation = "insert"
        THEN /\ calls' = <<InsertCall(0)>>
             /\ pc' = "awaitInsert"
             /\ conn' = connNow
             /\ UNCHANGED <<task, allP, returnItems, pendingThrow, outcome, failures>>
        ELSE IF input.operation \in {"executeQuery", "update"}
        THEN /\ calls' = [k \in 1..(FirstThrow - 1) |-> RecordCall(0, k)]
             /\ task' = [i \in 1..N |-> IF i < FirstThrow
                                        THEN [NoTask EXCEPT !.st = "querying", !.call = i]
                                        ELSE NoTask]
             /\ IF FirstThrow <= N
                THEN /\ failures' = failures \cup {RecordError(FirstThrow)}
                     /\ EndOperation(connNow, TRUE, RecordError(FirstThrow), <<>>)
                     /\ UNCHANGED allP
                ELSE IF N = 0
                THEN /\ allP' = "resolved"
                     /\ EndOperation(connNow, FALSE, NoError, AllFulfilled(task))
                     /\ UNCHANGED failures
                ELSE /\ allP' = "pending"
                     /\ pc' = "awaitAll"
                     /\ conn' = connNow
                     /\ UNCHANGED <<returnItems, pendingThrow, outcome, failures>>
        ELSE /\ failures' = failures \cup {UnsupportedOperation(input.operation)}
             /\ EndOperation(connNow, TRUE, UnsupportedOperation(input.operation), <<>>)
             /\ UNCHANGED <<task, calls, allP>>

\* fbdAsync.attachAsync(credentials) resolves for connection c
AttachOk(c) ==
    /\ conn[c] = "attaching"
    /\ UNCHANGED <<variant, rwIn, rwOut, pjIn, pjOut, heap, input>>
    /\ IF variant = "node_ts"
       THEN SharedAttached
       ELSE IF c = 0
       THEN /\ calls' = Append(calls, InsertCall(0))
            /\ pc' = "awaitInsert"
            /\ conn' = [conn EXCEPT ![0] = "attached"]
            /\ UNCHANGED <<task, allP, returnItems, pendingThrow, outcome, failures>>
       ELSE IF RecordThrows(c)
       THEN /\ TaskRejects([conn EXCEPT ![c] = "attached"], c, RecordError(c))
            /\ UNCHANGED calls
       ELSE /\ calls' = Append(calls, RecordCall(c, c))
            /\ task' = [task EXCEPT ![c] = [@ EXCEPT !.st = "querying", !.call = Len(calls) + 1]]
            /\ conn' = [conn EXCEPT ![c] = "attached"]
            /\ UNCHANGED <<allP, pc, returnItems, pendingThrow, outcome, failures>>

\* fbdAsync.attachAsync(credentials) rejects for connection c
AttachFails(c) ==
    /\ conn[c] = "attaching"
    /\ UNCHANGED <<variant, rwIn, rwOut, pjIn, pjOut, heap, input, calls>>
    /\ IF variant = "node_ts"
       THEN \* outside the operation's try/catch; finally finds db undefined
            /\ conn' = [conn EXCEPT ![0] = "attachFailed"]
            /\ failures' = failures \cup {ConnectError(0)}
            /\ pc' = "done"
            /\ outcome' = Threw(ConnectError(0))
            /\ UNCHANGED <<task, allP, returnItems, pendingThrow>>
       ELSE IF c = 0
       THEN /\ failures' = failures \cup {ConnectError(0)}
            /\ EndOperation([conn EXCEPT ![0] = "attachFailed"], TRUE, ConnectError(0), <<>>)
            /\ UNCHANGED <<task, allP>>
       ELSE TaskRejects([conn EXCEPT ![c] = "attachFailed"], c, ConnectError(c))

\* the place of the next call to complete
NextRank == Cardinality({k \in DOMAIN calls : calls[k].st # "inflight"}) + 1

\* the record whose promise waits for call k
TaskOf(k) == CHOOSE i \in 1..N : task[i].call = k

\* returnItems[0] of a query result that is not undefined
FirstOf(result) ==
    IF result.kind = "array" /\ Len(result.rows) > 0 THEN result.rows[1] ELSE Undefined

\* a barrier that in update opens with the first fulfilled promise
firstFulfilledInUpdate(taskNow) ==
    IF input.operation = "update"
    THEN \E j \in 1..N : taskNow[j].st = "resolved"
    ELSE \A j \in 1..N : taskNow[j].st = "resolved"

\* Promise.all is fulfilled once every per-record promise is fulfilled
allFulfilled(taskNow) == \A j \in 1..N : taskNow[j].st = "resolved"

\* db.queryAsync of call k resolves with result
QueryOk(k, result) ==
    /\ calls[k].st = "inflight"
    /\ calls' = [calls EXCEPT ![k].st = "ok", ![k].rank = NextRank]
    /\ UNCHANGED <<variant, rwIn, rwOut, pjIn, pjOut, heap, input>>
    /\ LET c == calls[k].conn
           \* part_003, dist_js: db.detachAsync() is called and not awaited
           connNow == IF variant = "node_ts" THEN conn ELSE [conn EXCEPT ![c] = "detaching"]
       IN  IF input.operation = "insert"
           THEN /\ UNCHANGED <<task, allP>>
                /\ IF result.kind = "undefined"
                   THEN /\ failures' = failures \cup {TypeError}
                        /\ EndOperation(connNow, TRUE, TypeError, <<>>)
                   ELSE /\ EndOperation(connNow, FALSE, NoError, returnJsonValue(FirstOf(result)))
                        /\ UNCHANGED failures
           ELSE LET i == TaskOf(k)
                    taskNow == [task EXCEPT ![i] = [@ EXCEPT !.st = "resolved", !.result = result]]
                IN  /\ task' = taskNow
                    /\ UNCHANGED failures
                    /\ IF allP = "pending" /\ allFulfilled(taskNow)
                       THEN /\ allP' = "resolved"
                            /\ EndOperation(connNow, FALSE, NoError, AllFulfilled(taskNow))
                       ELSE /\ conn' = connNow
                            /\ UNCHANGED <<allP, pc, returnItems, pendingThrow, outcome>>

\* db.queryAsync of call k rejects
QueryFails(k) ==
    /\ calls[k].st = "inflight"
    /\ calls' = [calls EXCEPT ![k].st = "failed", ![k].rank = NextRank]
    /\ UNCHANGED <<variant, rwIn, rwOut, pjIn, pjOut, heap, input>>
    /\ IF input.operation = "insert"
       THEN /\ failures' = failures \cup {QueryError(k)}
            /\ EndOperation(conn, TRUE, QueryError(k), <<>>)
            /\ UNCHANGED <<task, allP>>
       ELSE TaskRejects(conn, TaskOf(k), QueryError(k))

\* db.detachAsync() of connection c resolves
DetachOk(c) ==
    /\ conn[c] = "detaching"
    /\ conn' = [conn EXCEPT ![c] = "detached"]
    /\ UNCHANGED <<variant, rwIn, rwOut, pjIn, pjOut, heap, input, task, calls, allP, returnItems, failures>>
    /\ IF variant = "node_ts"
       THEN /\ pc' = "done"
            /\ pendingThrow' = NoError
            /\ outcome' = IF pendingThrow # NoError
                          THEN Threw(pendingThrow) ELSE Returned(returnItems)
       ELSE UNCHANGED <<pc, pendingThrow, outcome>>

\* db.detachAsync() of connection c rejects
DetachFails(c) ==
    /\ conn[c] = "detaching"
    /\ conn' = [conn EXCEPT ![c] = "detachFailed"]
    /\ UNCHANGED <<variant, rwIn, rwOut, pjIn, pjOut, heap, input, task, calls, allP, returnItems, failures>>
    /\ IF variant = "node_ts"
       THEN \* await db.detachAsync() inside finally throws
            /\ pc' = "done"
            /\ pendingThrow' = NoError
            /\ outcome' = Threw(DetachError(c))
       ELSE UNCHANGED <<pc, pendingThrow, outcome>>

Next ==
    \/ Start
    \/ \E c \in DOMAIN conn : AttachOk(c)
    \/ \E c \in DOMAIN conn : AttachFails(c)
    \/ \E k \in DOMAIN calls : \E result \in DriverResults(k) : QueryOk(k, result)
    \/ \E k \in DOMAIN calls : QueryFails(k)
    \/ \E c \in DOMAIN conn : DetachOk(c)
    \/ \E c \in DOMAIN conn : DetachFails(c)

Spec == Init /\ [][Next]_vars

(***************************************************************************)
(* What the specification says of a template: its single-quoted literals   *)
(* are opaque, and a colon followed by [_a-zA-Z0-9]+ anywhere else is a    *)
(* named placeholder.                                                       *)
(***************************************************************************)
\* the named placeholders outside literals, left to right, from position i
RECURSIVE PlaceholdersFrom(_, _)
PlaceholdersFrom(t, i) ==
    IF i >= Len(t) THEN <<>>
    ELSE IF charAt(t, i) = "'" /\ NextQuote(t, i + 1) >= 0
    THEN PlaceholdersFrom(t, NextQuote(t, i + 1) + 1)
    ELSE IF charAt(t, i) = ":" /\ IdentEnd(t, i + 1) > i + 1
    THEN <<substring(t, i + 1, IdentEnd(t, i + 1))>> \o PlaceholdersFrom(t, IdentEnd(t, i + 1))
    ELSE PlaceholdersFrom(t, i + 1)

Placeholders(t) == PlaceholdersFrom(t, 0)

\* the template with each named placeholder outside literals replaced by one ?
RECURSIVE PositionalFrom(_, _)
PositionalFrom(t, i) ==
    IF i >= Len(t) THEN <<>>
    ELSE IF charAt(t, i) = "'" /\ NextQuote(t, i + 1) >= 0
    THEN substring(t, i, NextQuote(t, i + 1) + 1) \o PositionalFrom(t, NextQuote(t, i + 1) + 1)
    ELSE IF charAt(t, i) = ":" /\ IdentEnd(t, i + 1) > i + 1
    THEN <<"?">> \o PositionalFrom(t, IdentEnd(t, i + 1))
    ELSE <<charAt(t, i)>> \o PositionalFrom(t, i + 1)

Positional(t) == PositionalFrom(t, 0)

\* a colon followed by an identifier character occurs somewhere in the text
HasColonToken(t) == \E i \in 1..(Len(t) - 1) : t[i] = ":" /\ t[i + 1] \in IdentChar

\* a colon-prefixed token occurs inside a single-quoted literal
HasQuotedToken(t) == HasColonToken(t) /\ Len(Placeholders(t)) < Len(matchAll(t))

Declared == splitTrim(rwIn.paramsString)

AllDeclared(t) == \A i \in 1..Len(Placeholders(t)) : includes(Declared, Placeholders(t)[i])

Undeclared(t) == {Placeholders(t)[i] : i \in {j \in 1..Len(Placeholders(t)) :
                                                ~includes(Declared, Placeholders(t)[j])}}

\* the projected value of a field: a copy of the record's value, null when absent
ProjectedValue(json, field) ==
    IF hasOwn(json, field) THEN getProp(json, field) ELSE Null

CountOf(s, c) == Cardinality({i \in 1..Len(s) : s[i] = c})

Ran == rwOut # NotRun

(***************************************************************************)
(* Claims about the rewrite (specification SpecRewrite).                   *)
(***************************************************************************)
\* C1: when every named placeholder of the template is declared, the text sent to
\* the driver is the template with each named placeholder outside literals replaced
\* by exactly one ? and every other character unchanged.  Stated for the templates
\* without a quote, where every colon-prefixed token is a named placeholder.
C1_SentTextIsPositional ==
    (Ran /\ CountOf(rwIn.rawQuery, "'") = 0 /\ AllDeclared(rwIn.rawQuery))
        => (rwOut.kind = "query" /\ rwOut.sql = Positional(rwIn.rawQuery))

\* C2: when the rewrite succeeds, the number of ? in the rewritten query equals the
\* number of arguments, and the i-th argument is the projected value of the i-th
\* named placeholder of the original template.  Stated for the templates without a
\* quote, where every colon-prefixed token is a named placeholder.
C2_ArgumentsAlignWithPlaceholders ==
    (Ran /\ CountOf(rwIn.rawQuery, "'") = 0 /\ AllDeclared(rwIn.rawQuery)
         /\ rwOut.kind = "query")
        => /\ CountOf(rwOut.sql, "?") = Len(rwOut.args)
           /\ \A i \in 1..Len(rwOut.args) :
                /\ i <= Len(Placeholders(rwIn.rawQuery))
                /\ rwOut.args[i] = ProjectedValue(rwIn.item, Placeholders(rwIn.rawQuery)[i])

\* C3: a colon-prefixed token inside a single-quoted literal is never treated as a
\* named placeholder.  Stated for the templates whose colon-prefixed tokens all lie
\* inside literals: nothing is validated, no argument is bound, the text is unchanged.
C3_QuotedTokenIsNotAPlaceholder ==
    (Ran /\ HasQuotedToken(rwIn.rawQuery) /\ Placeholders(rwIn.rawQuery) = <<>>)
        => /\ rwOut.kind = "query"
           /\ rwOut.args = <<>>
           /\ rwOut.sql = rwIn.rawQuery

\* C4: a template with an undeclared named placeholder outside literals makes the
\* record fail with the parameter-unknown error naming that identifier, and no
\* query of the record is sent.
C4_UndeclaredPlaceholderFails ==
    (Ran /\ Undeclared(rwIn.rawQuery) # {})
        => /\ rwOut.kind = "throw"
           /\ rwOut.error.kind = "parameterUnknown"
           /\ rwOut.error.detail \in Undeclared(rwIn.rawQuery)

\* C5: a template without any named placeholder (no colon followed by an identifier
\* character) is sent to the driver unchanged, with an empty argument list and
\* without a parameter array, whatever the declared parameters and record values.
C5_NoPlaceholderSendsRawQuery ==
    (Ran /\ ~HasColonToken(rwIn.rawQuery))
        => /\ rwOut.kind = "query"
           /\ rwOut.args = <<>>
           /\ ~rwOut.hasArgs
           /\ rwOut.sql = rwIn.rawQuery

(***************************************************************************)
(* Claims about execute() (specification Spec).                            *)
(***************************************************************************)
\* execute() has ended and the driver has nothing left to complete
Quiescent ==
    /\ pc = "done"
    /\ \A c \in DOMAIN conn : conn[c] \notin {"attaching", "detaching"}
    /\ \A k \in DOMAIN calls : calls[k].st # "inflight"

\* the failures of an operation the claims name
OperationFailures ==
    {e \in failures : e.kind \in {"parameterUnknown", "operationNotSupported",
                                  "connectError", "queryError"}}

\* C6: every connection attached during an invocation is detached on every exit
\* path: once the invocation is over and the driver is idle, no connection is
\* left attached without db.detachAsync() having been called on it.
C6_AttachedConnectionsAreDetached ==
    Quiescent => \A c \in DOMAIN conn : conn[c] # "attached"

\* C7: with continue-on-failure active, a failure of the operation does not leave
\* execute(): it returns exactly one output record {error: message}.
C7_ContinueOnFailReturnsOneErrorRecord ==
    (pc = "done" /\ input.continueOnFail /\ OperationFailures # {})
        => /\ outcome.kind = "returned"
           /\ Len(outcome.items) = 1
           /\ outcome.items[1].json = "errorObject"
           /\ outcome.items[1].error \in OperationFailures

\* C8: without continue-on-failure, a failure of the operation makes execute() fail
\* with that error and return no output records.
C8_FailureIsThrown ==
    (pc = "done" /\ ~input.continueOnFail /\ OperationFailures # {})
        => /\ outcome.kind = "threw"
           /\ outcome.error \in OperationFailures
           /\ outcome.items = <<>>

\* the projected values of a record in the order of the field list
ExpectedRow(json, fields) == [j \in 1..Len(fields) |-> ProjectedValue(json, fields[j])]

RECURSIVE ExpectedRows(_, _)
ExpectedRows(items, fields) ==
    IF Len(items) = 0 THEN <<>>
    ELSE ExpectedRow(items[1], fields) \o ExpectedRows(Tail(items), fields)

\* a tuple of k comma-joined ?
Tuple(k) == <<"(">> \o join([j \in 1..k |-> <<"?">>]) \o <<")">>

ExpectedInsertSQL ==
    INSERT_INTO \o input.table \o <<"(">> \o input.columnString \o VALUES
        \o join([i \in 1..N |-> Tuple(Len(splitTrim(input.columnString)))]) \o <<";">>

\* C9: insert performs one query for the whole batch; its SQL is INSERT INTO
\* <table>(<columns>) VALUES, n comma-joined tuples of k comma-joined ? and ; and
\* its arguments are the n*k projected values in record order then column order.
C9_InsertIsOneBatchedQuery ==
    (input.operation = "insert" /\ calls # <<>>)
        => /\ Len(calls) = 1
           /\ calls[1].sql = ExpectedInsertSQL
           /\ calls[1].hasArgs
           /\ calls[1].args = ExpectedRows(input.items, splitTrim(input.columnString))

\* the declared column list with the update key prepended when it was omitted
ExpectedUpdateColumns ==
    IF includes(splitTrim(input.columnString), input.updateKey)
    THEN splitTrim(input.columnString)
    ELSE <<input.updateKey>> \o splitTrim(input.columnString)

ExpectedUpdateSQL ==
    UPDATE \o input.table \o SET
        \o join([j \in 1..Len(ExpectedUpdateColumns) |-> ExpectedUpdateColumns[j] \o EQ_PARAM])
        \o WHERE \o input.updateKey \o EQ_PARAM \o <<";">>

\* C10: update executes one query per record, all with the same SQL UPDATE <table>
\* SET c1 = ?,... WHERE <updateKey> = ?; the arguments of a record's query are its
\* projected column values in column order followed by its own update-key value.
C10_UpdateIsOneQueryPerRecord ==
    input.operation = "update"
        => /\ \A i \in 1..N : Cardinality({k \in DOMAIN calls : task[i].call = k}) <= 1
           /\ \A k \in DOMAIN calls : \E i \in 1..N : task[i].call = k
           /\ (allP = "resolved" => Len(calls) = N)
           /\ \A i \in 1..N : task[i].call # 0 =>
                /\ calls[task[i].call].sql = ExpectedUpdateSQL
                /\ calls[task[i].call].args =
                       Append(ExpectedRow(input.items[i], ExpectedUpdateColumns),
                              ProjectedValue(input.items[i], input.updateKey))

(***************************************************************************)
(* Claims about copyInputItems (specification SpecProject).                *)
(***************************************************************************)
\* a value with the arrays it refers to written out
RECURSIVE Structure(_, _)
Structure(h, v) ==
    IF IsRef(h, v)
    THEN [prim |-> "array",
          elems |-> [j \in 1..Len(h[Addr(h, v)]) |-> Structure(h, h[Addr(h, v)][j])]]
    ELSE [prim |-> v, elems |-> <<>>]

\* the own property k of obj
OwnValue(obj, k) == obj.own[CHOOSE i \in 1..Len(obj.own) : obj.own[i].k = k].v

\* C11: copyInputItems(R, F) returns a list as long as R in the same order; each
\* output record holds, for each field of F, a structurally equal copy of the
\* source value when the record has the field and null when it has not; and
\* writing into a projected value never changes what the input records hold.
C11_ProjectionIsADeepCopy ==
    pjOut # NotProjected =>
        /\ pjOut.kind = "returned"
        /\ Len(pjOut.items) = Len(pjIn.items)
        /\ \A i \in 1..Len(pjIn.items) : \A j \in 1..Len(pjIn.properties) :
              LET field == pjIn.properties[j]
              IN  /\ hasOwn(pjOut.items[i], field)
                  /\ ~pjOut.mutated =>
                        Structure(heap, OwnValue(pjOut.items[i], field)) =
                            IF hasOwn(pjIn.items[i], field)
                            THEN Structure(pjIn.heap, OwnValue(pjIn.items[i], field))
                            ELSE Structure(NoHeap, Null)
        /\ \A i \in 1..Len(pjIn.items) : \A k \in 1..Len(pjIn.items[i].own) :
              Structure(heap, pjIn.items[i].own[k].v) =
                  Structure(pjIn.heap, pjIn.items[i].own[k].v)

(***************************************************************************)
(* Further claims about execute() (specification Spec).                    *)
(***************************************************************************)
\* the field list of the projection of insert and of update
ProjectionFields ==
    IF input.operation = "update"
    THEN updateColumns(input.columnString, input.updateKey)
    ELSE splitTrim(input.columnString)

\* the positional values call k takes from the projected record of item i: the
\* i-th group of the batch of insert, all arguments but the last one of update
PositionalValues(k, i) ==
    LET width == Len(ProjectionFields)
        args == calls[k].args
    IN  IF input.operation = "insert"
        THEN SubSeq(args, (i - 1) * width + 1, i * width)
        ELSE SubSeq(args, 1, Len(args) - 1)

\* C12: the values taken from a projected record for the positional arguments of
\* insert and update follow the order of the field list: the j-th positional
\* value of a record is the projected value of the j-th field.
C12_PositionalValuesFollowFieldOrder ==
    input.operation \in {"insert", "update"} =>
        \A k \in DOMAIN calls : \A i \in 1..N :
            (input.operation = "insert" \/ task[i].call = k) =>
                /\ Len(calls[k].args) = IF input.operation = "insert"
                                        THEN N * Len(ProjectionFields)
                                        ELSE Len(ProjectionFields) + 1
                /\ \A j \in 1..Len(ProjectionFields) :
                      PositionalValues(k, i)[j] =
                          ProjectedValue(input.items[i], ProjectionFields[j])

\* execute() ended by returning the output of an operation in which nothing failed
Succeeded(operation) ==
    /\ pc = "done"
    /\ input.operation = operation
    /\ outcome.kind = "returned"
    /\ failures = {}

\* what the result of one record contributes to the output collection
Contribution(result) ==
    IF result.kind = "array" THEN result.rows
    ELSE IF result.kind = "object" THEN <<result.rows[1]>>
    ELSE <<EmptyObject>>

\* the contributions of the records from i on, in input order
RECURSIVE ContributionsFrom(_)
ContributionsFrom(i) ==
    IF i > N THEN <<>> ELSE Contribution(task[i].result) \o ContributionsFrom(i + 1)

\* C13: the output of a successful execute-query is built from the per-record
\* driver results: an array of rows contributes each of its rows, a single
\* object contributes itself as one entry, undefined contributes one empty object.
C13_OutputIsBuiltFromDriverResults ==
    Succeeded("executeQuery") =>
        outcome.items = [e \in 1..Len(ContributionsFrom(1)) |-> Entry(ContributionsFrom(1)[e])]

\* C14: when the credential provider returns nothing, execute() fails with the
\* no-credentials error, whatever the operation, and no connection is ever
\* attached and no query is ever issued.
C14_NoCredentialsFailsFirst ==
    ~input.credentials =>
        /\ \A c \in DOMAIN conn : conn[c] = "none"
        /\ calls = <<>>
        /\ pc \in {"start", "done"}
        /\ pc = "done" => outcome = Threw(NoCredentials)

\* C14 happens: an update of some records with continue-on-failure set has ended
\* without credentials
C14_Witness ==
    /\ ~input.credentials
    /\ input.operation = "update"
    /\ input.continueOnFail
    /\ N >= 1
    /\ pc = "done"
    /\ outcome = Threw(NoCredentials)

\* C15: in execute-query and update the query of a record is issued without
\* waiting for the query of an earlier record: while the operation waits for its
\* queries, a record whose query is not issued yet waits for its own connection
\* (or its own callback has failed), never for another record.  And the results
\* are aggregated only after the queries of all records have completed: the
\* barrier is open only when every record's query has been issued and answered,
\* and before that returnItems holds no entry made of a result.
C15_QueriesAreConcurrentAndJoined ==
    input.operation \in {"executeQuery", "update"} =>
        /\ pc = "awaitAll" =>
              \A i \in 1..N : task[i].call = 0 => task[i].st \in {"attaching", "rejected"}
        /\ allP = "resolved" =>
              /\ \A i \in 1..N : task[i].st = "resolved"
              /\ Len(calls) = N
              /\ \A k \in DOMAIN calls : calls[k].st = "ok"
        /\ allP \in {"none", "pending"} =>
              \A e \in 1..Len(returnItems) : returnItems[e].json = "errorObject"

\* C15 happens: the queries of two records are in flight at the same time, the
\* later record's having been issued first or not
C15_Witness ==
    /\ input.operation = "update"
    /\ N >= 2
    /\ Len(calls) >= 2
    /\ calls[1].st = "inflight"
    /\ calls[2].st = "inflight"
    /\ allP = "pending"

\* C16: in the variant that shares one connection per invocation, the connection
\* is never detached while a query issued on it is still in flight: once
\* db.detachAsync() has been called, every issued query has completed.
C16_NoDetachWhileQueryInFlight ==
    (variant = "node_ts" /\ conn[0] \in {"detaching", "detached", "detachFailed"})
        => \A k \in DOMAIN calls : calls[k].st # "inflight"

\* C17: when detaching a connection fails, the invocation still ends with the
\* primary outcome of the operation: the output records when the operation
\* succeeded or its failure was captured by continue-on-failure, the operation's
\* own error otherwise; the failure of the release never takes its place.
C17_DetachFailureKeepsPrimaryOutcome ==
    (pc = "done" /\ \E c \in DOMAIN conn : conn[c] = "detachFailed")
        => /\ outcome.kind = "threw" => outcome.error \in failures
           /\ (failures = {} \/ input.continueOnFail) => outcome = Returned(returnItems)

\* the number of output entries the result of one record makes
EntriesOf(result) == IF result.kind = "array" THEN Len(result.rows) ELSE 1

\* the number of output entries made by the records before record i
RECURSIVE EntriesBefore(_)
EntriesBefore(i) ==
    IF i <= 1 THEN 0 ELSE EntriesBefore(i - 1) + EntriesOf(task[i - 1].result)

\* entry p of record i is made of the record's own result
MadeOf(data, result, p) ==
    IF result.kind = "array" THEN data = result.rows[p]
    ELSE IF result.kind = "object" THEN data = result.rows[1]
    ELSE data \in {Undefined, EmptyObject}

\* C18: the output of a successful execute-query lists the results in input
\* record order, whatever the order in which the queries completed: the entries
\* of record i are those of its own result, in their order, right after the
\* entries of the records before it, and nothing else is in the output.
C18_OutputFollowsRecordOrder ==
    Succeeded("executeQuery") =>
        /\ Len(outcome.items) = EntriesBefore(N + 1)
        /\ \A i \in 1..N : \A p \in 1..EntriesOf(task[i].result) :
              MadeOf(outcome.items[EntriesBefore(i) + p].json, task[i].result, p)

\* C18 happens: the query of the second record completed before the query of the
\* first one, each with rows of its own
C18_Witness ==
    /\ Succeeded("executeQuery")
    /\ N = 2
    /\ calls[task[2].call].rank < calls[task[1].call].rank
    /\ task[1].result.kind = "array"
    /\ task[2].result.kind = "array"
    /\ task[1].result # task[2].result

\* C19: for insert and for update, whatever the column list and the records, the
\* number of ? in the SQL text passed to the driver equals the length of the
\* argument list passed with it.
C19_PlaceholderCountEqualsArgumentCount ==
    input.operation \in {"insert", "update"} =>
        \A k \in DOMAIN calls : CountOf(calls[k].sql, "?") = Len(calls[k].args)

\* C20: the output of a successful update does not depend on the results the
\* driver returned for the update queries: whatever they were, execute() returns
\* the one entry made of returnItems[0] of the empty initial returnItems, so two
\* invocations that differ only in the driver results return the same output.
C20_UpdateOutputIgnoresDriverResults ==
    Succeeded("update") => outcome.items = <<Entry(Undefined)>>

\* C20 happens: an update of two records has succeeded, one query answered with
\* rows and the other with a single object
C20_Witness ==
    /\ Succeeded("update")
    /\ N = 2
    /\ task[1].result.kind = "array"
    /\ task[2].result.kind = "object"

====
